---- MODULE Spec2Model ----
(***************************************************************************)
(* Model of translate/convert/oo2po.py: the oo2po converter class          *)
(* (maketargetunit, convertelement, convertstore) and the convertoo        *)
(* driver.  Python str values are modelled as sequences of one-character   *)
(* strings, so that strip(), isdigit(), join() and concatenation are       *)
(* computed character by character.                                        *)
(***************************************************************************)
EXTENDS Integers, Sequences, FiniteSets, TLC

\* ----------------------------------------------------------------------
\* Bounds of the model
\* ----------------------------------------------------------------------

\* largest number of records (oo units) in the input of convertoo
MaxRecords == 3

\* ----------------------------------------------------------------------
\* Python built-ins used by the code
\* ----------------------------------------------------------------------

Digits == {"0", "1", "2", "3", "4", "5", "6", "7", "8", "9"}

Whitespace == {" ", "\t", "\n"}

\* str.isdigit(): non-empty and every character is a digit
isdigit(s) == Len(s) > 0 /\ \A i \in 1..Len(s) : s[i] \in Digits

RECURSIVE lstrip(_)
lstrip(s) == IF s # <<>> /\ Head(s) \in Whitespace THEN lstrip(Tail(s)) ELSE s

RECURSIVE rstrip(_)
rstrip(s) ==
    IF s # <<>> /\ s[Len(s)] \in Whitespace
    THEN rstrip(SubSeq(s, 1, Len(s) - 1))
    ELSE s

\* str.strip()
strip(s) == rstrip(lstrip(s))

\* sep.join(parts)
RECURSIVE join(_, _)
join(sep, parts) ==
    IF parts = <<>> THEN <<>>
    ELSE IF Len(parts) = 1 THEN parts[1]
    ELSE parts[1] \o sep \o join(sep, Tail(parts))

\* Optional str values: None, or a str
None == [isNone |-> TRUE, s |-> <<>>]

Str(s) == [isNone |-> FALSE, s |-> s]

\* truth value of an optional str (None and "" are false)
Truthy(v) == ~v.isNone /\ v.s # <<>>

\* ----------------------------------------------------------------------
\* String literals
\* ----------------------------------------------------------------------

EN_US == <<"e", "n", "-", "U", "S">>

NUM01 == <<"0", "1">>

FR == <<"f", "r">>

NUM49 == <<"4", "9">>

X_COMMENT == <<"x", "-", "c", "o", "m", "m", "e", "n", "t">>

TEXT == <<"t", "e", "x", "t">>

QUICKHELPTEXT == <<"q", "u", "i", "c", "k", "h", "e", "l", "p", "t", "e", "x", "t">>

TITLE == <<"t", "i", "t", "l", "e">>

\* the subkeys in the order convertelement iterates over them
Subkeys == <<TEXT, QUICKHELPTEXT, TITLE>>

\* ----------------------------------------------------------------------
\* translate.storage.oo: lines, units and keys
\* ----------------------------------------------------------------------

\* oo.ooline(): a line with every field empty
ooline == [key |-> <<<<>>, <<>>, <<>>, <<>>, <<>>, <<>>>>, languageid |-> <<>>,
           text |-> <<>>, quickhelptext |-> <<>>, title |-> <<>>]

\* ooline.getkey(): (project, sourcefile, resourcetype, groupid, localid, platform)
getkey(line) == line.key

\* getattr(part, subkey)
getattr(part, subkey) ==
    IF subkey = TEXT THEN part.text
    ELSE IF subkey = QUICKHELPTEXT THEN part.quickhelptext
    ELSE part.title

\* the last path component of a source file name
RECURSIVE basename(_)
basename(path) ==
    IF \A i \in 1..Len(path) : path[i] # "/" THEN path
    ELSE basename(Tail(path))

\* backslashes of a file name become slashes
normalizefilename(s) == [i \in 1..Len(s) |-> IF s[i] = "\\" THEN "/" ELSE s[i]]

\* oo.makekey(ookey, long_keys)
makekey(ookey, long_keys) ==
    LET project == ookey[1]
        sourcefile == normalizefilename(ookey[2])
        resourcetype == ookey[3]
        groupid == ookey[4]
        localid == ookey[5]
        sourcebase == IF long_keys THEN join(<<"/">>, <<project, sourcefile>>)
                      ELSE basename(sourcefile)
        fullid0 == IF Len(groupid) = 0 \/ Len(localid) = 0
                   THEN groupid \o localid
                   ELSE groupid \o <<".">> \o localid
        fullid == IF resourcetype # <<>> THEN fullid0 \o <<".">> \o resourcetype
                  ELSE fullid0
    IN  normalizefilename(sourcebase \o <<"#">> \o fullid)

\* oounit.languages: the dictionary languageid -> line (a later line of the
\* same language replaces an earlier one)
languages(theoo) ==
    [l \in {theoo.lines[i].languageid : i \in 1..Len(theoo.lines)} |->
        LET last == CHOOSE i \in 1..Len(theoo.lines) :
                        /\ theoo.lines[i].languageid = l
                        /\ \A j \in (i + 1)..Len(theoo.lines) :
                               theoo.lines[j].languageid # l
        IN  theoo.lines[last]]

\* `lang in theoo.languages` for an optional str
InLanguages(lang, theoo) == ~lang.isNone /\ lang.s \in DOMAIN languages(theoo)

\* ----------------------------------------------------------------------
\* translate.storage.po: units
\* ----------------------------------------------------------------------

\* po.pounit(source, encoding="UTF-8")
pounit(source) ==
    [source |-> source, target |-> <<>>, locations |-> <<>>, notes |-> <<>>,
     msgctxt |-> <<>>, encoding |-> "UTF-8"]

\* unit.addlocation(location)
addlocation(unit, location) ==
    [unit EXCEPT !.locations = Append(@, location)]

\* unit.addnote(text, origin)
addnote(unit, text, origin) ==
    [unit EXCEPT !.notes = Append(@, [text |-> text, origin |-> origin])]

\* the value of maketargetunit when the source text is empty
NoUnit == [isNone |-> TRUE]

\* ----------------------------------------------------------------------
\* class oo2po
\* ----------------------------------------------------------------------

\* oo2po.__init__
oo2po(sourcelanguage, targetlanguage, blankmsgstr, long_keys) ==
    [sourcelanguage |-> sourcelanguage, targetlanguage |-> targetlanguage,
     blankmsgstr |-> blankmsgstr, long_keys |-> long_keys]

\* maketargetunit with the emptiness test on the target text
maketargetunit_TestsTarget(part1, part2, translators_comment, key, subkey) ==
    LET text1 == getattr(part1, subkey)
        text2 == getattr(part2, subkey)
        unit0 == [pounit(text1) EXCEPT !.target = text2]
        unit1 == addlocation(unit0, key \o <<".">> \o subkey)
        unit2 == IF strip(getattr(translators_comment, subkey)) # <<>>
                 THEN addnote(unit1, getattr(translators_comment, subkey), "developer")
                 ELSE unit1
    IN  IF text2 = <<>> THEN NoUnit ELSE unit2

\* maketargetunit with the comment tested without strip()
maketargetunit_NoStrip(part1, part2, translators_comment, key, subkey) ==
    LET text1 == getattr(part1, subkey)
        text2 == getattr(part2, subkey)
        unit0 == [pounit(text1) EXCEPT !.target = text2]
        unit1 == addlocation(unit0, key \o <<".">> \o subkey)
        unit2 == IF getattr(translators_comment, subkey) # <<>>
                 THEN addnote(unit1, getattr(translators_comment, subkey), "developer")
                 ELSE unit1
    IN  IF text1 = <<>> THEN NoUnit ELSE unit2

\* oo2po.maketargetunit
maketargetunit(part1, part2, translators_comment, key, subkey) ==
    LET text1 == getattr(part1, subkey)
        text2 == getattr(part2, subkey)
        unit0 == [pounit(text1) EXCEPT !.target = text2]
        unit1 == addlocation(unit0, key \o <<".">> \o subkey)
        unit2 == IF strip(getattr(translators_comment, subkey)) # <<>>
                 THEN addnote(unit1, getattr(translators_comment, subkey), "developer")
                 ELSE unit1
    IN  IF text1 = <<>> THEN NoUnit ELSE unit2

\* the loop over the subkeys, each unit put in front of the list
RECURSIVE subkeyloop_Reversed(_, _, _, _, _)
subkeyloop_Reversed(part1, part2, translators_comment, key, n) ==
    IF n > Len(Subkeys) THEN <<>>
    ELSE LET unit == maketargetunit(part1, part2, translators_comment, key, Subkeys[n])
             rest == subkeyloop_Reversed(part1, part2, translators_comment, key, n + 1)
         IN  IF unit # NoUnit THEN rest \o <<unit>> ELSE rest

\* the loop of convertelement over the subkeys from position n on
RECURSIVE subkeyloop(_, _, _, _, _)
subkeyloop(part1, part2, translators_comment, key, n) ==
    IF n > Len(Subkeys) THEN <<>>
    ELSE LET unit == maketargetunit(part1, part2, translators_comment, key, Subkeys[n])
             rest == subkeyloop(part1, part2, translators_comment, key, n + 1)
         IN  IF unit # NoUnit THEN <<unit>> \o rest ELSE rest

\* the missing source language goes unlogged
missingsource_Silent(self, theoo) == [unitlist |-> <<>>, logged |-> <<>>]

\* convertelement when the record has no source language: no unit, and an
\* error is logged with the record's key and the language
missingsource(self, theoo) ==
    [unitlist |-> <<>>,
     logged |-> <<[level |-> "error",
                   key |-> join(<<"/">>, getkey(theoo.lines[1])),
                   language |-> self.sourcelanguage]>>]

\* the choice of part2 without the test of blankmsgstr
targetpart_IgnoresBlank(self, theoo) ==
    IF InLanguages(self.targetlanguage, theoo)
    THEN languages(theoo)[self.targetlanguage.s]
    ELSE ooline

\* convertelement's choice of part2: blank with blankmsgstr, and blank when
\* the record lacks the target language
targetpart(self, theoo) ==
    IF self.blankmsgstr THEN ooline
    ELSE IF InLanguages(self.targetlanguage, theoo)
    THEN languages(theoo)[self.targetlanguage.s]
    ELSE ooline

\* convertelement's choice of translators_comment
commentpart(theoo) ==
    IF X_COMMENT \in DOMAIN languages(theoo)
    THEN languages(theoo)[X_COMMENT]
    ELSE ooline

\* convertelement with a missing target language handled like a missing
\* source language
convertelement_MissingTargetIsError(self, theoo) ==
    IF \/ ~InLanguages(self.sourcelanguage, theoo)
       \/ (~self.blankmsgstr /\ ~InLanguages(self.targetlanguage, theoo))
    THEN missingsource(self, theoo)
    ELSE LET part1 == languages(theoo)[self.sourcelanguage.s]
             key == makekey(getkey(part1), self.long_keys)
         IN  [unitlist |-> subkeyloop(part1, targetpart(self, theoo),
                                      commentpart(theoo), key, 1),
              logged |-> <<>>]

\* oo2po.convertelement: the list of units, and what it logs
convertelement(self, theoo) ==
    IF ~InLanguages(self.sourcelanguage, theoo)
    THEN missingsource(self, theoo)
    ELSE LET part1 == languages(theoo)[self.sourcelanguage.s]
             key == makekey(getkey(part1), self.long_keys)
         IN  [unitlist |-> subkeyloop(part1, targetpart(self, theoo),
                                      commentpart(theoo), key, 1),
              logged |-> <<>>]

\* ----------------------------------------------------------------------
\* translate.storage.oo.oofile and translate.storage.po.pofile
\* ----------------------------------------------------------------------

\* oo.oofile(): an empty store
oofile == [filename |-> <<>>, units |-> <<>>, languages |-> <<>>]

\* oofile.addline: a line joins the unit of its key, or starts a new unit
addline(store, line) ==
    LET found == {i \in 1..Len(store.units) :
                      getkey(store.units[i].lines[1]) = getkey(line)}
        units == IF found = {}
                 THEN Append(store.units, [lines |-> <<line>>])
                 ELSE [i \in 1..Len(store.units) |->
                          IF i \in found
                          THEN [lines |-> Append(store.units[i].lines, line)]
                          ELSE store.units[i]]
        langs == IF \E i \in 1..Len(store.languages) :
                        store.languages[i] = line.languageid
                 THEN store.languages
                 ELSE Append(store.languages, line.languageid)
    IN  [store EXCEPT !.units = units, !.languages = langs]

\* oofile.parse: the lines of the input, added one by one
RECURSIVE parse(_, _)
parse(store, lines) ==
    IF lines = <<>> THEN store
    ELSE parse(addline(store, Head(lines)), Tail(lines))

\* truth value of an oofile object: the class defines neither __bool__ nor
\* __len__, so every instance is true
oofile_bool(store) == TRUE

\* po.pofile() after init_headers, the header note and the language tags
pofile(self, filename) ==
    [header |-> [x_accelerator_marker |-> <<"~">>,
                 x_merge_on |-> "location",
                 report_msgid_bugs_to |->
                     [subcomponent |-> "ui", comment |-> "", short_desc |-> filename,
                      component |-> "l10n", form_name |-> "enter_issue"],
                 note |-> filename,
                 sourcelanguage |-> self.sourcelanguage,
                 targetlanguage |-> self.targetlanguage],
     units |-> <<>>]

\* pofile.addunit
addunit(store, unit) == [store EXCEPT !.units = Append(@, unit)]

\* pofile.isempty: no translation unit besides the header
isempty(store) == Len(store.units) = 0

\* the context a duplicate gets: its locations joined by a space
locationcontext(unit) == join(<<" ">>, unit.locations)

\* the elements of b that are not in a, appended to a
RECURSIVE union(_, _)
union(a, b) ==
    IF b = <<>> THEN a
    ELSE IF \E i \in 1..Len(a) : a[i] = Head(b) THEN union(a, Tail(b))
    ELSE union(Append(a, Head(b)), Tail(b))

\* pounit.merge: the locations and notes of a duplicate join the original's
merge(unit, other) ==
    [unit EXCEPT !.locations = union(@, other.locations),
                 !.notes = union(@, other.notes)]

\* the duplicate resolution loop: uniqueunits so far, units still to visit
RECURSIVE duplicateloop(_, _, _)
duplicateloop(uniqueunits, units, duplicatestyle) ==
    IF units = <<>> THEN uniqueunits
    ELSE
      LET thepo == Head(units)
          same == {i \in 1..Len(uniqueunits) : uniqueunits[i].source = thepo.source}
          orig == CHOOSE i \in same : \A j \in same : i <= j
      IN  IF same = {} \/ duplicatestyle = "keep"
          THEN duplicateloop(Append(uniqueunits, thepo), Tail(units), duplicatestyle)
          ELSE IF duplicatestyle = "merge"
          THEN duplicateloop([uniqueunits EXCEPT ![orig] = merge(@, thepo)],
                             Tail(units), duplicatestyle)
          ELSE duplicateloop(
                 Append([uniqueunits EXCEPT
                            ![orig].msgctxt = locationcontext(uniqueunits[orig])],
                        [thepo EXCEPT !.msgctxt = locationcontext(thepo)]),
                 Tail(units), duplicatestyle)

\* pofile.removeduplicates(duplicatestyle)
removeduplicates(store, duplicatestyle) ==
    [store EXCEPT !.units = duplicateloop(<<>>, store.units, duplicatestyle)]

\* ----------------------------------------------------------------------
\* Inputs
\* ----------------------------------------------------------------------

DigitChar(n) == <<"0", "1", "2", "3", "4", "5", "6", "7", "8", "9">>[(n % 10) + 1]

\* the key of the n-th record of an input: records 2k-1 and 2k live in files
\* of the same name in two directories and have the same ids
KeyOf(n) ==
    << <<"p">>,
       <<(IF n % 2 = 1 THEN "a" ELSE "b"), "/", "f">>,
       <<>>,
       <<"g">>,
       <<DigitChar((n + 1) \div 2)>>,
       <<>> >>

\* a line of a record: a language and its three subfields
Line(languageid, text, quickhelptext, title) ==
    [languageid |-> languageid, text |-> text,
     quickhelptext |-> quickhelptext, title |-> title]

OK == <<"O", "K">>

JA == <<"J", "a">>

\* the records an input of convertoo is made of (their lines, without keys)
RecordKinds ==
    { <<Line(EN_US, OK, <<>>, OK), Line(FR, JA, <<>>, <<>>)>>,
      <<Line(FR, JA, <<>>, <<>>)>>,
      <<Line(NUM01, OK, <<>>, <<>>), Line(NUM49, JA, <<>>, <<>>)>>,
      <<Line(FR, JA, <<>>, <<>>), Line(EN_US, <<"H", "i">>, <<>>, <<>>)>>,
      <<Line(EN_US, <<>>, <<>>, <<>>), Line(FR, JA, JA, JA)>> }

\* the lines of the n-th record, with its key
Keyed(kind, n) ==
    [i \in 1..Len(kind) |->
        [key |-> KeyOf(n), languageid |-> kind[i].languageid, text |-> kind[i].text,
         quickhelptext |-> kind[i].quickhelptext, title |-> kind[i].title]]

\* the lines of an input: the records' lines one after the other
RECURSIVE Flatten(_, _)
Flatten(kinds, n) ==
    IF n > Len(kinds) THEN <<>>
    ELSE Keyed(kinds[n], n) \o Flatten(kinds, n + 1)

InputFiles ==
    UNION { {Flatten(kinds, 1) : kinds \in [1..n -> RecordKinds]} : n \in 0..MaxRecords }

\* the duplicate policies: qualify by context (the defaults of convertstore and
\* of convertoo), merge, or leave the duplicates untouched
DuplicateStyles == {"msgctxt", "msgid_comment", "merge", "keep"}

MultifileStyles == {"single", "onefile"}

\* verifyoptions: the target language may be omitted only with --pot
verifyoptions(options) == options.pot \/ Truthy(options.targetlanguage)

\* the arguments the command line passes to convertoo
Arguments ==
    { a \in [pot : BOOLEAN,
             sourcelanguage : {None, Str(EN_US), Str(NUM01)},
             targetlanguage : {None, Str(FR), Str(NUM49)},
             duplicatestyle : DuplicateStyles,
             multifilestyle : MultifileStyles] : verifyoptions(a) }

\* ----------------------------------------------------------------------
\* State
\* ----------------------------------------------------------------------

VARIABLES
    pc,             \* where the run is
    args,           \* the arguments of convertoo
    inputfile,      \* the lines inputfile.read() yields
    inputstore,     \* the parsed oofile
    convertor,      \* the oo2po instance
    duplicatestyle, \* the duplicatestyle argument of convertstore
    idx,            \* position of convertstore's loop in inputstore.units
    theoo,          \* the record the loop converted last
    unitlist,       \* the units convertelement returned for it
    thetargetfile,  \* the pofile being built
    deduparg,       \* the unit lists removeduplicates was called on
    log,            \* what was logged
    outputfile,     \* the catalogs serialized to the output
    retval,         \* <<>> while running, <<r>> once convertoo returned r
    exception       \* the exception that ended the run, if any

vars == <<pc, args, inputfile, inputstore, convertor, duplicatestyle, idx, theoo,
          unitlist, thetargetfile, deduparg, log, outputfile, retval, exception>>

\* "(input file name not known)"
unknownname ==
    <<"(", "i", "n", "p", "u", "t", " ", "f", "i", "l", "e", " ", "n", "a",
      "m", "e", " ", "n", "o", "t", " ", "k", "n", "o", "w", "n", ")">>

\* a call of convertoo(inputfile, outputfile, templates, pot, ...)
Init ==
    /\ pc = "convertoo"
    /\ args \in Arguments
    /\ inputfile \in InputFiles
    /\ inputstore = oofile
    /\ convertor = oo2po(None, None, FALSE, FALSE)
    /\ duplicatestyle = args.duplicatestyle
    /\ idx = 1
    /\ theoo = [lines |-> <<>>]
    /\ unitlist = <<>>
    /\ thetargetfile = [header |-> <<>>, units |-> <<>>]
    /\ deduparg = <<>>
    /\ log = <<>>
    /\ outputfile = <<>>
    /\ retval = <<>>
    /\ exception = "none"

\* the warning convertoo logs for a language that is not in the input
missing(what, language, store) ==
    IF \E i \in 1..Len(store.languages) : Str(store.languages[i]) = language
    THEN <<>>
    ELSE <<[level |-> "warning", key |-> what, language |-> language]>>

\* convertoo, from the parse of the input to the call of convertstore, and
\* convertstore up to its loop
convertoo_begin ==
    /\ pc = "convertoo"
    /\ LET store == parse([oofile EXCEPT !.filename = unknownname], inputfile)
           inferred == ~Truthy(args.sourcelanguage)
           indexerror == /\ inferred
                         /\ ~Truthy(args.targetlanguage)
                         /\ oofile_bool(store)
                         /\ store.languages = <<>>
           testlangtype == IF Truthy(args.targetlanguage) THEN args.targetlanguage.s
                           ELSE IF oofile_bool(store) THEN store.languages[1]
                           ELSE <<>>
           sourcelanguage == IF ~inferred THEN args.sourcelanguage
                             ELSE IF isdigit(testlangtype) THEN Str(NUM01)
                             ELSE Str(EN_US)
           self == oo2po(sourcelanguage, args.targetlanguage, args.pot,
                         args.multifilestyle # "single")
       IN  /\ inputstore' = store
           /\ IF indexerror
              THEN /\ pc' = "raised"
                   /\ exception' = "IndexError"
                   /\ UNCHANGED <<convertor, thetargetfile, log>>
              ELSE /\ pc' = "convertstore"
                   /\ convertor' = self
                   /\ thetargetfile' = pofile(self, store.filename)
                   /\ log' = missing("sourcelanguage", sourcelanguage, store)
                             \o (IF Truthy(args.targetlanguage)
                                 THEN missing("targetlanguage", args.targetlanguage, store)
                                 ELSE <<>>)
                   /\ UNCHANGED exception
    /\ UNCHANGED <<args, inputfile, duplicatestyle, idx, theoo, unitlist, deduparg,
                   outputfile, retval>>

\* appends the units of a list to the pofile, in order
RECURSIVE addunits(_, _)
addunits(store, units) ==
    IF units = <<>> THEN store
    ELSE addunits(addunit(store, Head(units)), Tail(units))

\* the loop of convertstore with the units of a record put in front of the
\* pofile's units
convertstore_loop_Prepends ==
    /\ pc = "convertstore"
    /\ idx <= Len(inputstore.units)
    /\ LET element == convertelement(convertor, inputstore.units[idx])
       IN  /\ theoo' = inputstore.units[idx]
           /\ unitlist' = element.unitlist
           /\ log' = log \o element.logged
           /\ thetargetfile' =
                  [thetargetfile EXCEPT !.units = element.unitlist \o @]
    /\ idx' = idx + 1
    /\ UNCHANGED <<pc, args, inputfile, inputstore, convertor, duplicatestyle,
                   deduparg, outputfile, retval, exception>>

\* one round of the loop of convertstore: a record is converted and its units
\* are added to the pofile
convertstore_loop ==
    /\ pc = "convertstore"
    /\ idx <= Len(inputstore.units)
    /\ LET element == convertelement(convertor, inputstore.units[idx])
       IN  /\ theoo' = inputstore.units[idx]
           /\ unitlist' = element.unitlist
           /\ log' = log \o element.logged
           /\ thetargetfile' = addunits(thetargetfile, element.unitlist)
    /\ idx' = idx + 1
    /\ UNCHANGED <<pc, args, inputfile, inputstore, convertor, duplicatestyle,
                   deduparg, outputfile, retval, exception>>

\* the end of convertstore without the duplicate resolution
convertstore_end_NoResolution ==
    /\ pc = "convertstore"
    /\ idx > Len(inputstore.units)
    /\ deduparg' = Append(deduparg, thetargetfile.units)
    /\ pc' = "converted"
    /\ UNCHANGED <<args, inputfile, inputstore, convertor, duplicatestyle, idx, theoo,
                   unitlist, thetargetfile, log, outputfile, retval, exception>>

\* the end of convertstore: duplicate resolution, and the pofile is returned
convertstore_end ==
    /\ pc = "convertstore"
    /\ idx > Len(inputstore.units)
    /\ deduparg' = Append(deduparg, thetargetfile.units)
    /\ thetargetfile' = removeduplicates(thetargetfile, duplicatestyle)
    /\ pc' = "converted"
    /\ UNCHANGED <<args, inputfile, inputstore, convertor, duplicatestyle, idx, theoo,
                   unitlist, log, outputfile, retval, exception>>

\* the end of convertoo: an empty pofile is not written
convertoo_end ==
    /\ pc = "converted"
    /\ IF isempty(thetargetfile)
       THEN /\ retval' = <<0>>
            /\ UNCHANGED outputfile
       ELSE /\ outputfile' = Append(outputfile, thetargetfile)
            /\ retval' = <<1>>
    /\ pc' = "done"
    /\ UNCHANGED <<args, inputfile, inputstore, convertor, duplicatestyle, idx, theoo,
                   unitlist, thetargetfile, deduparg, log, exception>>

Next == convertoo_begin \/ convertstore_loop \/ convertstore_end \/ convertoo_end

Spec == Init /\ [][Next]_vars

\* ----------------------------------------------------------------------
\* The converter class used directly: oo2po(...).convertstore(store) on a
\* store of one record, drawn from every combination of the subfields
\* ----------------------------------------------------------------------

SourceTexts == {<<>>, OK}

TargetTexts == {<<>>, JA}

CommentTexts == {<<>>, <<" ">>, <<" ", "c">>}

\* zero or one line of a language, its subfields drawn from texts
OptionalLine(languageid, texts) ==
    {<<>>} \cup {<<Line(languageid, t, q, h)>> : t \in texts, q \in texts, h \in texts}

ElementInputs ==
    { Keyed(s \o t \o c, 1) :
        s \in OptionalLine(EN_US, SourceTexts),
        t \in OptionalLine(FR, TargetTexts),
        c \in OptionalLine(X_COMMENT, CommentTexts) } \ {<<>>}

Convertors ==
    { oo2po(Str(EN_US), t, b, l) : t \in {None, Str(FR)}, b \in BOOLEAN, l \in BOOLEAN }

InitElement ==
    /\ pc = "convertstore"
    /\ convertor \in Convertors
    /\ args = [pot |-> convertor.blankmsgstr,
               sourcelanguage |-> convertor.sourcelanguage,
               targetlanguage |-> convertor.targetlanguage,
               duplicatestyle |-> "msgctxt",
               multifilestyle |-> IF convertor.long_keys THEN "onefile" ELSE "single"]
    /\ inputfile \in ElementInputs
    /\ inputstore = parse([oofile EXCEPT !.filename = unknownname], inputfile)
    /\ duplicatestyle = "msgctxt"
    /\ idx = 1
    /\ theoo = [lines |-> <<>>]
    /\ unitlist = <<>>
    /\ thetargetfile = pofile(convertor, inputstore.filename)
    /\ deduparg = <<>>
    /\ log = <<>>
    /\ outputfile = <<>>
    /\ retval = <<>>
    /\ exception = "none"

NextElement == convertstore_loop \/ convertstore_end

SpecElement == InitElement /\ [][NextElement]_vars

\* ----------------------------------------------------------------------
\* Vocabulary of the properties
\* ----------------------------------------------------------------------

\* the record has a line of the language
HasLine(rec, languageid) ==
    \E i \in 1..Len(rec.lines) : rec.lines[i].languageid = languageid

\* the record's line of the language
LineOf(rec, languageid) ==
    rec.lines[CHOOSE i \in 1..Len(rec.lines) : rec.lines[i].languageid = languageid]

\* convertstore's loop has converted a record: theoo, into unitlist
Converted == theoo.lines # <<>>

\* the record has a projection for the converter's source language
HasSource(rec) == HasLine(rec, convertor.sourcelanguage.s)

\* the record has a projection for the converter's target language
HasTarget(rec) ==
    ~convertor.targetlanguage.isNone /\ HasLine(rec, convertor.targetlanguage.s)

\* the subkeys whose source subfield is not empty, in subkey order
SourceSubkeys(rec) ==
    LET NonEmpty(subkey) == getattr(LineOf(rec, convertor.sourcelanguage.s), subkey) # <<>>
    IN  SelectSeq(Subkeys, NonEmpty)

EndsWith(s, suffix) ==
    Len(s) >= Len(suffix) /\ SubSeq(s, Len(s) - Len(suffix) + 1, Len(s)) = suffix

\* only whitespace, or nothing
IsBlank(s) == \A i \in 1..Len(s) : s[i] \in Whitespace

\* ----------------------------------------------------------------------
\* Properties of convertelement (checked under SpecElement)
\* ----------------------------------------------------------------------

\* C1: for every record with a source projection and every subfield, a unit
\* is emitted for the subfield if and only if the source subfield is not
\* empty, whatever the target and comment projections hold; no source
\* subfield, no unit; and every emitted unit has a non-empty source.
C1_UnitIffSourceNonEmpty ==
    (Converted /\ HasSource(theoo)) =>
        /\ \A n \in 1..Len(Subkeys) :
              (\E k \in 1..Len(unitlist) :
                   /\ Len(unitlist[k].locations) > 0
                   /\ EndsWith(unitlist[k].locations[1], <<".">> \o Subkeys[n]))
              <=> getattr(LineOf(theoo, convertor.sourcelanguage.s), Subkeys[n]) # <<>>
        /\ Len(unitlist) = Len(SourceSubkeys(theoo))
        /\ \A k \in 1..Len(unitlist) : unitlist[k].source # <<>>

\* a record whose source subfields are all empty and whose target subfields
\* are all non-empty was converted into no unit
C1_Witness ==
    /\ Converted /\ HasSource(theoo) /\ HasTarget(theoo)
    /\ ~convertor.blankmsgstr
    /\ SourceSubkeys(theoo) = <<>>
    /\ \A n \in 1..Len(Subkeys) :
          getattr(LineOf(theoo, convertor.targetlanguage.s), Subkeys[n]) # <<>>
    /\ unitlist = <<>>

\* C3: with blankmsgstr on, every unit convertelement emits has an empty
\* target, whether or not the record has a target projection.
C3_BlankTargets ==
    (Converted /\ convertor.blankmsgstr) =>
        \A k \in 1..Len(unitlist) : unitlist[k].target = <<>>

\* blankmsgstr is on, the record has a non-empty target text, and a unit
\* was emitted
C3_Witness ==
    /\ Converted /\ convertor.blankmsgstr
    /\ HasSource(theoo) /\ HasTarget(theoo)
    /\ LineOf(theoo, convertor.targetlanguage.s).text # <<>>
    /\ Len(unitlist) > 0
    /\ unitlist[1].source = LineOf(theoo, convertor.sourcelanguage.s).text

\* C4: with blankmsgstr off, a record with a non-empty source text and no
\* target projection still yields its units, the first with the source text
\* and an empty target, nothing is logged and no unit is dropped; with the
\* target projection present, each unit's target is that projection's same
\* subfield.
C4_MissingTargetIsUntranslated ==
    (Converted /\ ~convertor.blankmsgstr /\ HasSource(theoo)) =>
        LET part1 == LineOf(theoo, convertor.sourcelanguage.s)
            expected == SourceSubkeys(theoo)
        IN  /\ Len(unitlist) = Len(expected)
            /\ (~HasTarget(theoo) /\ part1.text # <<>>) =>
                  /\ unitlist[1].source = part1.text
                  /\ unitlist[1].source # <<>>
                  /\ \A k \in 1..Len(unitlist) : unitlist[k].target = <<>>
                  /\ log = <<>>
            /\ HasTarget(theoo) =>
                  \A k \in 1..Len(unitlist) :
                      unitlist[k].target =
                          getattr(LineOf(theoo, convertor.targetlanguage.s), expected[k])

\* a target language is asked for, the record has none, and the unit of the
\* source text came out untranslated
C4_Witness ==
    /\ Converted /\ ~convertor.blankmsgstr /\ HasSource(theoo)
    /\ ~convertor.targetlanguage.isNone /\ ~HasTarget(theoo)
    /\ LineOf(theoo, convertor.sourcelanguage.s).text # <<>>
    /\ Len(unitlist) > 0
    /\ unitlist[1].target = <<>>
    /\ log = <<>>

\* C5: the units of a record come in the order text, quickhelptext, title
\* (subfields with an empty source skipped), at most three, and each has
\* exactly one location, "<key>.<subfield>", with <key> the makekey of the
\* record's key.
C5_OrderAndLocations ==
    (Converted /\ HasSource(theoo)) =>
        LET part1 == LineOf(theoo, convertor.sourcelanguage.s)
            expected == SourceSubkeys(theoo)
            key == makekey(getkey(theoo.lines[1]), convertor.long_keys)
        IN  /\ Len(unitlist) = Len(expected)
            /\ Len(unitlist) <= 3
            /\ \A k \in 1..Len(unitlist) :
                  /\ unitlist[k].locations = <<key \o <<".">> \o expected[k]>>
                  /\ unitlist[k].source = getattr(part1, expected[k])

\* a record with its three source subfields filled gave three units
C5_Witness ==
    /\ Converted /\ HasSource(theoo)
    /\ Len(unitlist) = 3
    /\ EndsWith(unitlist[1].locations[1], <<".">> \o TEXT)
    /\ EndsWith(unitlist[2].locations[1], <<".">> \o QUICKHELPTEXT)
    /\ EndsWith(unitlist[3].locations[1], <<".">> \o TITLE)

\* C6: an emitted unit has a developer note if and only if the same subfield
\* of the record's x-comment projection is not blank; without an x-comment
\* projection no unit has a note.
C6_NoteIffComment ==
    (Converted /\ HasSource(theoo)) =>
        LET expected == SourceSubkeys(theoo)
        IN  /\ Len(unitlist) = Len(expected)
            /\ \A k \in 1..Len(unitlist) :
                  LET commented ==
                          /\ HasLine(theoo, X_COMMENT)
                          /\ ~IsBlank(getattr(LineOf(theoo, X_COMMENT), expected[k]))
                  IN  /\ (unitlist[k].notes # <<>>) <=> commented
                      /\ commented =>
                            unitlist[k].notes =
                                <<[text |-> getattr(LineOf(theoo, X_COMMENT), expected[k]),
                                   origin |-> "developer"]>>

\* a record with a comment on its text and a whitespace-only comment on its
\* title: the first unit has the note, the second has none
C6_Witness ==
    /\ Converted /\ HasSource(theoo) /\ HasLine(theoo, X_COMMENT)
    /\ SourceSubkeys(theoo) = <<TEXT, TITLE>>
    /\ ~IsBlank(LineOf(theoo, X_COMMENT).text)
    /\ LineOf(theoo, X_COMMENT).title # <<>>
    /\ IsBlank(LineOf(theoo, X_COMMENT).title)
    /\ Len(unitlist) = 2
    /\ unitlist[1].notes # <<>>
    /\ unitlist[2].notes = <<>>

\* ----------------------------------------------------------------------
\* Properties of convertstore and convertoo (checked under Spec)
\* ----------------------------------------------------------------------

\* convertstore has returned
Returned == pc \in {"converted", "done"}

\* the units of the records, one record after the other
RECURSIVE AllUnits(_, _)
AllUnits(self, records) ==
    IF records = <<>> THEN <<>>
    ELSE convertelement(self, Head(records)).unitlist \o AllUnits(self, Tail(records))

\* the number of units the records with a source projection are due
RECURSIVE DueUnits(_)
DueUnits(records) ==
    IF records = <<>> THEN 0
    ELSE (IF HasSource(Head(records)) THEN Len(SourceSubkeys(Head(records))) ELSE 0)
         + DueUnits(Tail(records))

\* the error entries of the log
Errors == SelectSeq(log, LAMBDA e : e.level = "error")

\* C2: a record without a projection for the source language contributes no
\* unit and has an error logged, with its key and the language; the other
\* records contribute what they contribute to a run without such records.
C2_MissingSourceIsSkipped ==
    /\ (Converted /\ ~HasSource(theoo)) => unitlist = <<>>
    /\ Returned =>
          LET records == inputstore.units
              failing == {i \in 1..Len(records) : ~HasSource(records[i])}
              others == SelectSeq(records, HasSource)
          IN  /\ Len(Errors) = Cardinality(failing)
              /\ \A i \in failing :
                    \E e \in 1..Len(Errors) :
                        /\ Errors[e].key = join(<<"/">>, getkey(records[i].lines[1]))
                        /\ Errors[e].language = convertor.sourcelanguage
              /\ Len(deduparg) = 1
              /\ deduparg[1] = AllUnits(convertor, others)
              /\ Len(deduparg[1]) = DueUnits(records)

\* a record without the source language, between a record that gave units
\* before it and one that gave units after it
C2_Witness ==
    /\ Returned
    /\ Len(inputstore.units) = 3
    /\ HasSource(inputstore.units[1])
    /\ SourceSubkeys(inputstore.units[1]) # <<>>
    /\ ~HasSource(inputstore.units[2])
    /\ HasSource(inputstore.units[3])
    /\ SourceSubkeys(inputstore.units[3]) # <<>>
    /\ Len(Errors) = 1
    /\ Len(deduparg[1]) =
           Len(SourceSubkeys(inputstore.units[1])) + Len(SourceSubkeys(inputstore.units[3]))

\* two units of the catalog with the same source
Duplicates(units) ==
    {p \in (1..Len(units)) \X (1..Len(units)) :
        p[1] < p[2] /\ units[p[1]].source = units[p[2]].source}

\* C7 as stated: after duplicate resolution two units share a source only
\* under a context-qualifying policy, and then their contexts, derived from
\* their locations, tell them apart.
C7_NoDuplicateSources ==
    Returned =>
        \A p \in Duplicates(thetargetfile.units) :
            LET u == thetargetfile.units[p[1]]
                v == thetargetfile.units[p[2]]
            IN  /\ duplicatestyle \in {"msgctxt", "msgid_comment"}
                /\ u.msgctxt = locationcontext(u)
                /\ v.msgctxt = locationcontext(v)
                /\ u.msgctxt # v.msgctxt

\* C7 as amended: after duplicate resolution two units share a source only
\* under the leave-untouched policy, or under a context-qualifying policy,
\* and then each carries the context derived from its own locations, which
\* tells them apart whenever their locations differ.
C7_DuplicatesPerPolicy ==
    Returned =>
        \A p \in Duplicates(thetargetfile.units) :
            LET u == thetargetfile.units[p[1]]
                v == thetargetfile.units[p[2]]
            IN  \/ duplicatestyle = "keep"
                \/ /\ duplicatestyle \in {"msgctxt", "msgid_comment"}
                   /\ u.msgctxt = locationcontext(u)
                   /\ v.msgctxt = locationcontext(v)
                   /\ (u.locations # v.locations => u.msgctxt # v.msgctxt)

\* records of two files gave the same source text, and under a
\* context-qualifying policy both units are in the catalog, told apart by
\* their contexts
C7_Witness ==
    /\ Returned
    /\ duplicatestyle = "msgctxt"
    /\ Len(inputstore.units) = 2
    /\ Len(deduparg[1]) = 2
    /\ Len(thetargetfile.units) = 2
    /\ thetargetfile.units[1].source = thetargetfile.units[2].source
    /\ thetargetfile.units[1].msgctxt # thetargetfile.units[2].msgctxt
    /\ getkey(inputstore.units[1].lines[1])[2] # getkey(inputstore.units[2].lines[1])[2]

\* C8 as stated: convertoo ends in one of two outcomes, never in an error:
\* no unit, nothing written and 0 returned; or units, the catalog written
\* once, after duplicate resolution, and 1 returned.
C8_TwoOutcomes ==
    /\ exception = "none"
    /\ pc = "done" =>
          \/ /\ isempty(thetargetfile)
             /\ outputfile = <<>>
             /\ retval = <<0>>
          \/ /\ ~isempty(thetargetfile)
             /\ outputfile = <<thetargetfile>>
             /\ Len(deduparg) = 1
             /\ retval = <<1>>
    /\ pc # "done" => (outputfile = <<>> /\ retval = <<>>)

\* the first language of the parsed input, "" when it has none
FirstLanguage == IF inputstore.languages = <<>> THEN <<>> ELSE inputstore.languages[1]

\* C10 as stated: a given source language is used unchanged; otherwise the
\* tag examined is the target language when given, else the first language
\* of the input, and the source language is "01" for a numeric tag, "en-US"
\* otherwise; this yields a tag for every input.
C10_InferredSourceLanguage ==
    pc # "convertoo" =>
        /\ exception = "none"
        /\ convertor.sourcelanguage =
              IF Truthy(args.sourcelanguage) THEN args.sourcelanguage
              ELSE LET tag == IF Truthy(args.targetlanguage) THEN args.targetlanguage.s
                              ELSE FirstLanguage
                   IN  IF tag # <<>> /\ \A i \in 1..Len(tag) : tag[i] \in Digits
                       THEN Str(NUM01)
                       ELSE Str(EN_US)

\* C9: when convertstore calls removeduplicates, the pofile's units are the
\* records' units in the order of the records, none dropped, repeated or
\* moved; removeduplicates is called once, after the last record.
C9_CatalogIsConcatenation ==
    /\ pc = "convertstore" =>
          /\ deduparg = <<>>
          /\ thetargetfile.units =
                 AllUnits(convertor, SubSeq(inputstore.units, 1, idx - 1))
    /\ Returned =>
          /\ idx = Len(inputstore.units) + 1
          /\ deduparg = <<AllUnits(convertor, inputstore.units)>>

\* removeduplicates was called on the units of two records, the first
\* record's two units before the second record's unit
C9_Witness ==
    /\ Returned
    /\ Len(inputstore.units) = 2
    /\ Len(deduparg) = 1
    /\ Len(deduparg[1]) = 3
    /\ deduparg[1][1].locations # deduparg[1][3].locations
    /\ deduparg[1][1].locations[1] =
           makekey(getkey(inputstore.units[1].lines[1]), convertor.long_keys)
               \o <<".">> \o TEXT
    /\ deduparg[1][3].locations[1] =
           makekey(getkey(inputstore.units[2].lines[1]), convertor.long_keys)
               \o <<".">> \o TEXT

====
